---- MODULE Spec2Model ----
(***************************************************************************)
(* The ingestion loop of fia-docs-api: main.rs (the pacing loop and the    *)
(* signal task) and middleware/runner.rs (runner, populate_cache,          *)
(* runner_internal and the store / object-storage helpers).                *)
(*                                                                         *)
(* An Option<T> is modelled as a set: {} is None and {x} is Some(x).       *)
(* The store tables are sequences of rows; a row's id is its index (the    *)
(* rowid the INSERT assigns).  Every `?` of the source is a step that may  *)
(* fail; a failure ends runner with Err.  A panic (unwrap on None) ends    *)
(* the process.                                                            *)
(***************************************************************************)
EXTENDS Integers, Sequences, FiniteSets, TLC

\* ---------------------------------------------------------------- bounds
MaxCycles == 2
MaxEvents == 2
MaxDocs == 2
MaxPages == 2
MaxElapsed == 6
ScriptEvents == 1
ScriptDocs == 2
MaxTokenLen == 3
PageEvents == 2
PageDocs == 1

\* ------------------------------------------------------ program constants
TargetInterval == 5
FallbackDelay == 1

\* ----------------------------------------------------------- input atoms
Years == {2025}
EventTitles == {"A"}
DocTitles == {"T"}
Urls == {"u1", "u2"}

Opt(S) == {{}} \cup {{x} : x \in S}

SeriesRange == 1..3

\* ParserEvent without its documents, and ParserDocument
EventCands == [title : Opt(EventTitles), season : Opt(Years)]
DocCands == [title : Opt(DocTitles), url : Opt(Urls)]

SeqsUpTo(S, n) == UNION {[1..k -> S] : k \in 0..n}

\* Feeds that stay the same in every cycle: well-formed candidates, at most
\* ScriptEvents events on the three pages together, each with at most
\* ScriptDocs documents
ScriptDocCands == [title : {{t} : t \in DocTitles}, url : {{u} : u \in Urls}]
ScriptEventCands ==
    [title : {{t} : t \in EventTitles}, season : Opt(Years),
     documents : SeqsUpTo(ScriptDocCands, ScriptDocs)]
ScriptCounts ==
    {c \in [SeriesRange -> 0..ScriptEvents] : c[1] + c[2] + c[3] <= ScriptEvents}

\* Feeds in which one page lists PageEvents events, each with at most PageDocs
\* documents, and the other pages list nothing
PageEventCands ==
    [title : {{t} : t \in EventTitles}, season : Opt(Years),
     documents : SeqsUpTo(ScriptDocCands, PageDocs)]
PageFeeds ==
    {[s \in SeriesRange |-> IF s = p THEN f ELSE <<>>] :
        p \in SeriesRange, f \in [1..PageEvents -> PageEventCands]}

VARIABLES
    pc,               \* position of the main task
    should_stop,      \* the AtomicBool shared with the signal task
    cycle,            \* number of cycles started
    events,           \* store table events
    documents,        \* store table documents
    images,           \* store table images
    tmp_dirty,        \* scratch directory holds files
    cache,            \* LocalCache
    year,             \* runner: year
    i,                \* runner: series index
    evIdx,            \* events the iterator of season.events has yielded
    ev,               \* runner_internal: ev (Option), without its documents
    real_event,       \* runner_internal: real_event
    docIdx,           \* documents the iterator of ev.documents has yielded
    doc,              \* runner_internal: doc (Option)
    inserted_doc_id,  \* runner_internal: inserted_doc_id
    files,            \* runner_internal: files.len()
    page_number,      \* runner_internal: page_number
    result,           \* what runner returned: "none", "ok", "err"
    runner_time,      \* main: runner_time, in seconds
    delay,            \* main: the duration slept
    script,           \* {} : the feeds are free; {f} : page of series s is f[s]
    ev_total,         \* event candidates the free feeds have yielded so far
    doc_total,        \* document candidates the free feeds have yielded so far
    failure,          \* history: kind of the failure that ended the cycle
    fetched,          \* history: series whose feed was fetched this cycle
    skipped,          \* history: the last document examined was a cache hit
    rendered,         \* history: doc id -> files.len() when it was marked done
    put_rejected,     \* history: a page PUT of this document got a non-success status
    wrote,            \* history: a store write happened in this cycle
    uploaded,         \* history: an upload happened in this cycle
    complete,         \* history: no loop of this cycle was cut by the stop flag
    cache_full,       \* history: populate_cache loaded every row of the year
    prev_clean,       \* history: the previous cycle was complete and returned Ok
    last_refresh,     \* history: day of the last successful document refresh (Option)
    entered,          \* history: urls whose download was started in this cycle
    tok,              \* series.rs: a String handed to Series::from
    ser,              \* series.rs: Series::from(tok) (Option)
    enc,              \* series.rs: String::from(ser) (Option)
    shown,            \* series.rs: ser.to_string() (Option)
    back              \* series.rs: Series::from(enc) (Option)

store == <<events, documents, images>>
locals == <<year, i, evIdx, ev, real_event, docIdx, doc, inserted_doc_id,
            files, page_number>>
pacing == <<runner_time, delay>>
budget == <<ev_total, doc_total>>
history == <<failure, fetched, skipped, rendered, put_rejected, wrote, uploaded,
             complete, cache_full, prev_clean>>
conv == <<tok, ser, enc, shown, back>>
loop == <<pc, should_stop, cycle, store, tmp_dirty, cache, locals, result,
          pacing, script, budget, history, last_refresh, entered>>
vars == <<loop, conv>>

NoEvent == [id |-> 0, title |-> ""]

\* LocalCache::default()
LocalCacheDefault == [events |-> <<>>, documents |-> <<>>, last_populated |-> 0]

InitCommon ==
    /\ pc = "main_loop"
    /\ should_stop = FALSE
    /\ cycle = 0
    /\ events = <<>>
    /\ documents = <<>>
    /\ images = <<>>
    /\ tmp_dirty = FALSE
    /\ cache = LocalCacheDefault
    /\ year \in Years
    /\ i = 1
    /\ evIdx = 0
    /\ ev = {}
    /\ real_event = NoEvent
    /\ docIdx = 0
    /\ doc = {}
    /\ inserted_doc_id = 0
    /\ files = 0
    /\ page_number = 0
    /\ result = "none"
    /\ runner_time = 0
    /\ delay = 0
    /\ ev_total = 0
    /\ doc_total = 0
    /\ failure = "none"
    /\ fetched = {}
    /\ skipped = FALSE
    /\ rendered = <<>>
    /\ put_rejected = FALSE
    /\ wrote = FALSE
    /\ uploaded = FALSE
    /\ complete = TRUE
    /\ cache_full = FALSE
    /\ prev_clean = FALSE
    /\ last_refresh = {}
    /\ entered = {}

\* no conversion of series.rs is in progress
ConvIdle ==
    /\ tok = <<>>
    /\ ser = {}
    /\ enc = {}
    /\ shown = {}
    /\ back = {}

Init == InitCommon /\ ConvIdle /\ script = {}

InitFixedFeed ==
    /\ InitCommon
    /\ ConvIdle
    /\ \E c \in ScriptCounts :
         \E f1 \in [1..c[1] -> ScriptEventCands],
            f2 \in [1..c[2] -> ScriptEventCands],
            f3 \in [1..c[3] -> ScriptEventCands] :
              script = {<<f1, f2, f3>>}


\* ------------------------------------------------------------- helpers
\* Utc::now() - cache.last_populated, in whole days: the clock reads a day of
\* `year`, at least this many days after the epoch
NowDays(y) == (y - 1970) * 365

\* the rows a SELECT ... WHERE year = ? returns, in rowid order
YearEvents(evts, y) == SelectSeq(evts, LAMBDA r : r.year = y)

\* the rows a SELECT ... WHERE strftime('%Y', created_at) = ? returns
YearDocuments(docs, y) == SelectSeq(docs, LAMBDA r : r.created = y)

Prefixes(s) == {SubSeq(s, 1, k) : k \in 0..Len(s)}

\* populate_cache: every way the call can end.  `while let Ok(Some(row))`
\* stops at the first row the cursor fails to deliver, without an error, so a
\* successful call may have loaded only a prefix of the rows; from_row(..)?
\* fails the call after the rows pushed so far.
PopulateOutcomes(c, evts, docs, y) ==
    LET cleared == [c EXCEPT !.events = <<>>, !.documents = <<>>]
        evRows == YearEvents(evts, y)
        docRows == YearDocuments(docs, y)
        withEv(pe) == [cleared EXCEPT !.events = pe]
        docPhase(pe) ==
            IF NowDays(y) - c.last_populated < 1
            THEN {[cache |-> withEv(pe), ok |-> TRUE,
                   full |-> pe = evRows /\ docRows = <<>>]}
            ELSE {[cache |-> withEv(pe), ok |-> FALSE, full |-> FALSE]}
                 \cup {[cache |-> [withEv(pe) EXCEPT !.documents = pd],
                        ok |-> FALSE, full |-> FALSE] :
                            pd \in Prefixes(docRows) \ {docRows}}
                 \cup {[cache |-> [withEv(pe) EXCEPT !.documents = pd,
                                                    !.last_populated = NowDays(y)],
                        ok |-> TRUE, full |-> pe = evRows /\ pd = docRows] :
                            pd \in Prefixes(docRows)}
    IN  {[cache |-> cleared, ok |-> FALSE, full |-> FALSE]}
        \cup {[cache |-> withEv(pe), ok |-> FALSE, full |-> FALSE] :
                  pe \in Prefixes(evRows) \ {evRows}}
        \cup UNION {docPhase(pe) : pe \in Prefixes(evRows)}

\* cache.events.iter().find(..): the first cached event that matches
FindCachedEvent(cevents, e, y, series) ==
    LET hit(f) == /\ \E t \in e.title : t = f.title
                  /\ \E s \in e.season : s = y
                  /\ f.series = series
        idx == {k \in 1..Len(cevents) : hit(cevents[k])}
    IN  IF idx = {} THEN {}
        ELSE {cevents[CHOOSE k \in idx : \A m \in idx : k <= m]}

\* cache.documents.iter().any(|f| f.href == url)
CacheHasOtherDocument(cdocs, url) == \E k \in 1..Len(cdocs) : cdocs[k].href # url
CacheHasDocument(cdocs, url) == \E k \in 1..Len(cdocs) : cdocs[k].href = url

\* Duration::from_secs(5).checked_sub(runner_time).unwrap_or(from_secs(1))
PacingDelay(e) == IF e <= TargetInterval THEN TargetInterval - e ELSE FallbackDelay

\* should_stop.load(Ordering::Relaxed)
StopIgnored(flag) == FALSE
StopRequested(flag) == flag

\* ------------------------------------------------------- failure exits
ResetLocals ==
    /\ i' = 1
    /\ evIdx' = 0
    /\ ev' = {}
    /\ real_event' = NoEvent
    /\ docIdx' = 0
    /\ doc' = {}
    /\ inserted_doc_id' = 0
    /\ files' = 0
    /\ page_number' = 0
    /\ UNCHANGED year

\* a `?` that propagates an error out of runner
Fail(kind) ==
    /\ pc' = "runner_done"
    /\ result' = "err"
    /\ failure' = kind
    /\ ResetLocals

\* unwrap() on None
Panic ==
    /\ pc' = "panicked"
    /\ failure' = "panic"
    /\ UNCHANGED <<result, locals>>

\* ------------------------------------------------------------- actions
\* main.rs: the signal task stores true into should_stop
CtrlC ==
    /\ UNCHANGED <<conv, last_refresh, entered>>
    /\ ~should_stop
    /\ UNCHANGED budget
    /\ pc \notin {"done", "exited", "panicked"}
    /\ should_stop' = TRUE
    /\ UNCHANGED <<pc, cycle, store, tmp_dirty, cache, locals, result,
                   pacing, script, history>>

\* main.rs: head of the loop, up to the call of runner and its first lines
MainLoop ==
    /\ UNCHANGED <<conv, last_refresh, entered>>
    /\ pc = "main_loop"
    /\ UNCHANGED budget
    /\ \E connected \in BOOLEAN :
         IF ~connected
         THEN /\ pc' = "exited"
              /\ UNCHANGED <<cycle, cache, locals, result, history>>
         ELSE IF StopRequested(should_stop)
         THEN /\ pc' = "done"
              /\ UNCHANGED <<cycle, cache, locals, result, history>>
         ELSE /\ cycle < MaxCycles
              /\ cycle' = cycle + 1
              /\ pc' = "populate"
              /\ cache' = LocalCacheDefault
              /\ year' \in Years
              /\ result' = "none"
              /\ failure' = "none"
              /\ fetched' = {}
              /\ skipped' = FALSE
              /\ wrote' = FALSE
              /\ uploaded' = FALSE
              /\ complete' = TRUE
              /\ cache_full' = FALSE
              /\ UNCHANGED <<i, evIdx, ev, real_event, docIdx, doc,
                             inserted_doc_id, files, page_number, rendered, put_rejected,
                             prev_clean>>
    /\ UNCHANGED <<should_stop, store, tmp_dirty, pacing, script>>

\* runner: populate_cache(db_conn, &mut local_cache, year).await?
PopulateCache ==
    /\ UNCHANGED <<conv, entered>>
    /\ pc = "populate"
    /\ UNCHANGED budget
    /\ \E o \in PopulateOutcomes(cache, events, documents, year) :
         /\ cache' = o.cache
         /\ cache_full' = o.full
         /\ last_refresh' = IF o.ok /\ o.cache.last_populated # cache.last_populated
                            THEN {o.cache.last_populated}
                            ELSE last_refresh
         /\ IF o.ok
            THEN /\ pc' = "get_season"
                 /\ i' = 1
                 /\ UNCHANGED <<result, failure, year, evIdx, ev, real_event,
                                docIdx, doc, inserted_doc_id, files, page_number>>
            ELSE Fail("store")
    /\ UNCHANGED <<should_stop, cycle, store, tmp_dirty, pacing, script,
                   fetched, skipped, rendered, put_rejected, wrote, uploaded,
                   complete, prev_clean>>

\* runner_internal: let season = get_season(url, year).await?
GetSeason ==
    /\ UNCHANGED <<conv, last_refresh, entered>>
    /\ pc = "get_season"
    /\ UNCHANGED budget
    /\ fetched' = fetched \cup {i}
    /\ \E fetch_ok \in BOOLEAN :
         IF fetch_ok
         THEN /\ pc' = "event_check"
              /\ evIdx' = 0
              /\ UNCHANGED <<result, failure, year, i, ev, real_event, docIdx,
                             doc, inserted_doc_id, files, page_number>>
         ELSE Fail("feed")
    /\ UNCHANGED <<should_stop, cycle, store, tmp_dirty, cache, pacing,
                   script, skipped, rendered, put_rejected, wrote, uploaded,
                   complete, cache_full, prev_clean>>


\* ------------------------------------------------- iterators of the feed
Some(o) == CHOOSE x \in o : TRUE

\* an iterator that yields the events of the page back to front
NextEventFromBack(sc, series, n, used) ==
    IF sc = {}
    THEN {{}} \cup (IF used < MaxEvents THEN {{e} : e \in EventCands} ELSE {})
    ELSE LET feed == Some(sc)[series]
         IN  IF n < Len(feed)
             THEN {{[title |-> feed[Len(feed) - n].title,
                     season |-> feed[Len(feed) - n].season]}}
             ELSE {{}}
\* season.events.into_iter().next(): {} when exhausted.  The parsed Season is
\* consumed once, front to back, so a free feed is revealed element by element.
NextEvent(sc, series, n, used) ==
    IF sc = {}
    THEN {{}} \cup (IF used < MaxEvents THEN {{e} : e \in EventCands} ELSE {})
    ELSE LET feed == Some(sc)[series]
         IN  IF n < Len(feed)
             THEN {{[title |-> feed[n + 1].title, season |-> feed[n + 1].season]}}
             ELSE {{}}

\* ev.documents.into_iter().next(), for the n-th event of the feed
NextDoc(sc, series, n, k, used) ==
    IF sc = {}
    THEN {{}} \cup (IF used < MaxDocs THEN {{d} : d \in DocCands} ELSE {})
    ELSE LET docs == Some(sc)[series][n].documents
         IN  IF k < Len(docs) THEN {{docs[k + 1]}} ELSE {{}}

\* INSERT INTO events (title, year, series, status) VALUES (?, ?, ?, ?)
InsertEvent(evts, title, y, series) ==
    Append(evts, [id |-> Len(evts) + 1, title |-> title, year |-> y,
                  series |-> series, status |-> "NotAllowed"])

\* INSERT INTO documents (event_id, title, href, mirror, status)
InsertDocument(docs, event_id, url, y) ==
    Append(docs, [id |-> Len(docs) + 1, event_id |-> event_id, href |-> url,
                  status |-> "Initial", created |-> y])

\* INSERT INTO images (document_id, url, page_number) VALUES (?, ?, ?)
InsertImageShifted(imgs, doc_id, page) ==
    Append(imgs, [document_id |-> doc_id, page_number |-> page + 1])
InsertImage(imgs, doc_id, page) ==
    Append(imgs, [document_id |-> doc_id, page_number |-> page])

\* cache.documents.push(Document { .. })
PushNothing(cdocs, row) == cdocs
PushDocument(cdocs, row) == Append(cdocs, row)

\* UPDATE documents SET status = ? WHERE id = ?
MarkDocDone(docs, doc_id) ==
    [k \in 1..Len(docs) |->
        IF docs[k].id = doc_id THEN [docs[k] EXCEPT !.status = "ReadyToPost"]
        ELSE docs[k]]

\* runner: the for loop over Series::F1..=Series::F3 moves on, or runner ends
SeriesDone ==
    IF i < 3
    THEN /\ pc' = "get_season"
         /\ i' = i + 1
         /\ evIdx' = 0
         /\ ev' = {}
         /\ real_event' = NoEvent
         /\ UNCHANGED <<result, year, docIdx, doc, inserted_doc_id, files,
                        page_number>>
    ELSE /\ pc' = "runner_done"
         /\ result' = "ok"
         /\ ResetLocals

\* runner_internal: head of `for ev in season.events.into_iter()`
EventCheck ==
    /\ UNCHANGED <<conv, last_refresh, entered>>
    /\ pc = "event_check"
    /\ UNCHANGED doc_total
    /\ \E n \in NextEvent(script, i, evIdx, ev_total) :
         IF n = {}
         THEN SeriesDone /\ UNCHANGED <<complete, ev_total>>
         ELSE IF StopRequested(should_stop)
         THEN SeriesDone /\ complete' = FALSE /\ UNCHANGED ev_total
         ELSE /\ pc' = "resolve_event"
              /\ ev_total' = IF script = {} THEN ev_total + 1 ELSE ev_total
              /\ ev' = n
              /\ evIdx' = evIdx + 1
              /\ docIdx' = 0
              /\ UNCHANGED <<result, complete, year, i, real_event, doc,
                             inserted_doc_id, files, page_number>>
    /\ UNCHANGED <<should_stop, cycle, store, tmp_dirty, cache, pacing,
                   script, failure, fetched, skipped, rendered, put_rejected,
                   wrote, uploaded, cache_full, prev_clean>>

\* runner_internal: the cache lookup of the event and create_new_event
ResolveEvent ==
    /\ UNCHANGED <<conv, last_refresh, entered>>
    /\ pc = "resolve_event"
    /\ UNCHANGED budget
    /\ LET e == Some(ev)
           found == FindCachedEvent(cache.events, e, year, i)
       IN  IF found # {}
           THEN /\ real_event' = [id |-> Some(found).id, title |-> Some(found).title]
                /\ pc' = "doc_check"
                /\ UNCHANGED <<events, wrote, result, failure, year, i, evIdx,
                               ev, docIdx, doc, inserted_doc_id, files,
                               page_number>>
           ELSE IF e.title = {}
           THEN Panic /\ UNCHANGED <<events, wrote>>
           ELSE \E insert_ok \in BOOLEAN :
                  IF insert_ok
                  THEN /\ events' = InsertEvent(events, Some(e.title), year, i)
                       /\ real_event' = [id |-> Len(events) + 1,
                                         title |-> Some(e.title)]
                       /\ wrote' = TRUE
                       /\ pc' = "doc_check"
                       /\ UNCHANGED <<result, failure, year, i, evIdx, ev,
                                      docIdx, doc, inserted_doc_id, files,
                                      page_number>>
                  ELSE Fail("store") /\ UNCHANGED <<events, wrote>>
    /\ UNCHANGED <<should_stop, cycle, documents, images, tmp_dirty, cache,
                   pacing, script, fetched, skipped, rendered, put_rejected,
                   uploaded, complete, cache_full, prev_clean>>

\* runner_internal: head of `for (i, mut doc) in ev.documents...enumerate()`
DocCheck ==
    /\ UNCHANGED <<conv, last_refresh, entered>>
    /\ pc = "doc_check"
    /\ UNCHANGED ev_total
    /\ \E n \in NextDoc(script, i, evIdx, docIdx, doc_total) :
         IF n = {}
         THEN /\ pc' = "clear_tmp"
              /\ UNCHANGED <<doc, docIdx, complete, doc_total>>
         ELSE IF StopRequested(should_stop)
         THEN /\ pc' = "clear_tmp"
              /\ complete' = FALSE
              /\ UNCHANGED <<doc, docIdx, doc_total>>
         ELSE /\ pc' = "doc_dedup"
              /\ doc_total' = IF script = {} THEN doc_total + 1 ELSE doc_total
              /\ doc' = n
              /\ docIdx' = docIdx + 1
              /\ UNCHANGED complete
    /\ inserted_doc_id' = 0
    /\ files' = 0
    /\ page_number' = 0
    /\ put_rejected' = FALSE
    /\ UNCHANGED <<should_stop, cycle, store, tmp_dirty, cache, year, i,
                   evIdx, ev, real_event, result, pacing, script, failure,
                   fetched, skipped, rendered, wrote, uploaded,
                   cache_full, prev_clean>>

\* runner_internal: the unwraps of title and url, and the cache check
DocDedup ==
    /\ UNCHANGED <<conv, last_refresh>>
    /\ pc = "doc_dedup"
    /\ UNCHANGED budget
    /\ LET d == Some(doc)
       IN  IF d.title = {} \/ d.url = {}
           THEN Panic /\ UNCHANGED <<skipped, entered>>
           ELSE /\ IF CacheHasDocument(cache.documents, Some(d.url))
                   THEN /\ pc' = "doc_check"
                        /\ skipped' = TRUE
                        /\ UNCHANGED entered
                   ELSE /\ pc' = "download"
                        /\ skipped' = FALSE
                        /\ entered' = entered \cup {Some(d.url)}
                /\ UNCHANGED <<result, failure, locals>>
    /\ UNCHANGED <<should_stop, cycle, store, tmp_dirty, cache, pacing,
                   script, fetched, rendered, put_rejected, wrote, uploaded,
                   complete, cache_full, prev_clean>>


\* download_file(&url, &format!("doc_{i}"), ..).await?
Download ==
    /\ UNCHANGED <<conv, last_refresh, entered>>
    /\ pc = "download"
    /\ UNCHANGED budget
    /\ \E download_ok \in BOOLEAN :
         IF download_ok
         THEN /\ tmp_dirty' = TRUE
              /\ pc' = "mirror"
              /\ UNCHANGED <<result, failure, locals>>
         ELSE /\ tmp_dirty' \in {tmp_dirty, TRUE}
              /\ Fail("pipeline")
    /\ UNCHANGED <<should_stop, cycle, store, cache, pacing, script,
                   fetched, skipped, rendered, put_rejected, wrote, uploaded,
                   complete, cache_full, prev_clean>>

\* upload_mirror(&title, &real_event.title, year, &body).await?
\* (send()? and error_for_status()? both fail the call)
UploadMirror ==
    /\ UNCHANGED <<conv, last_refresh, entered>>
    /\ pc = "mirror"
    /\ UNCHANGED budget
    /\ uploaded' = TRUE
    /\ \E put_ok \in BOOLEAN :
         IF put_ok
         THEN /\ pc' = "insert_doc"
              /\ UNCHANGED <<result, failure, locals>>
         ELSE Fail("pipeline")
    /\ UNCHANGED <<should_stop, cycle, store, tmp_dirty, cache,
                   pacing, script, fetched, skipped, rendered, put_rejected,
                   wrote, complete, cache_full, prev_clean>>

\* insert_document(..).await? and cache.documents.push(..)
InsertDoc ==
    /\ UNCHANGED <<conv, last_refresh, entered>>
    /\ pc = "insert_doc"
    /\ UNCHANGED budget
    /\ \E insert_ok \in BOOLEAN :
         IF insert_ok
         THEN /\ documents' = InsertDocument(documents, real_event.id,
                                             Some(Some(doc).url), year)
              /\ inserted_doc_id' = Len(documents) + 1
              /\ cache' = [cache EXCEPT !.documents =
                              PushDocument(@, [id |-> Len(documents) + 1,
                                               event_id |-> real_event.id,
                                               href |-> Some(Some(doc).url),
                                               status |-> "Initial",
                                               created |-> year])]
              /\ wrote' = TRUE
              /\ pc' = "render"
              /\ UNCHANGED <<result, failure, year, i, evIdx, ev, real_event,
                             docIdx, doc, files, page_number>>
         ELSE /\ UNCHANGED <<documents, cache, wrote>>
              /\ Fail("store")
    /\ UNCHANGED <<should_stop, cycle, events, images, tmp_dirty, pacing,
                   script, fetched, skipped, rendered, put_rejected, uploaded,
                   complete, cache_full, prev_clean>>

\* run_magick(file.to_string_lossy(), &format!("doc_{i}")).await?
Render ==
    /\ UNCHANGED <<conv, last_refresh, entered>>
    /\ pc = "render"
    /\ UNCHANGED budget
    /\ \E render_ok \in BOOLEAN :
         IF render_ok
         THEN \E n \in 0..MaxPages :
                /\ files' = n
                /\ page_number' = 0
                /\ pc' = IF n = 0 THEN "mark_done" ELSE "page_put"
                /\ UNCHANGED <<result, failure, year, i, evIdx, ev, real_event,
                               docIdx, doc, inserted_doc_id>>
         ELSE Fail("pipeline")
    /\ UNCHANGED <<should_stop, cycle, store, tmp_dirty, cache, pacing,
                   script, fetched, skipped, rendered, put_rejected, wrote,
                   uploaded,
                   complete, cache_full, prev_clean>>

\* page loop: File::open(path)?, read_to_end(..)?, upload_image(buf, &url).await?
\* upload_image ends with send().await? and Ok(()): the response status is
\* not looked at
PagePut ==
    /\ UNCHANGED <<conv, last_refresh, entered>>
    /\ pc = "page_put"
    /\ UNCHANGED budget
    /\ \E outcome \in {"read_err", "send_err", "status_ok", "status_bad"} :
         CASE outcome = "read_err" ->
                /\ Fail("pipeline")
                /\ UNCHANGED <<put_rejected, uploaded>>
           [] outcome = "send_err" ->
                /\ Fail("pipeline")
                /\ uploaded' = TRUE
                /\ UNCHANGED put_rejected
           [] outcome = "status_ok" ->
                /\ uploaded' = TRUE
                /\ pc' = "page_insert"
                /\ UNCHANGED <<put_rejected, result, failure, locals>>
           [] outcome = "status_bad" ->
                /\ put_rejected' = TRUE
                /\ uploaded' = TRUE
                /\ pc' = "page_insert"
                /\ UNCHANGED <<result, failure, locals>>
    /\ UNCHANGED <<should_stop, cycle, store, tmp_dirty, cache, pacing, script,
                   fetched, skipped, rendered, wrote, complete, cache_full,
                   prev_clean>>

\* page loop: insert_image(db_conn, inserted_doc_id, page_number, url).await?
PageInsert ==
    /\ UNCHANGED <<conv, last_refresh, entered>>
    /\ pc = "page_insert"
    /\ UNCHANGED budget
    /\ \E insert_ok \in BOOLEAN :
         IF insert_ok
         THEN /\ images' = InsertImage(images, inserted_doc_id, page_number)
              /\ wrote' = TRUE
              /\ IF page_number + 1 < files
                 THEN pc' = "page_put" /\ page_number' = page_number + 1
                 ELSE pc' = "mark_done" /\ UNCHANGED page_number
              /\ UNCHANGED <<result, failure, year, i, evIdx, ev, real_event,
                             docIdx, doc, inserted_doc_id, files>>
         ELSE /\ UNCHANGED <<images, wrote>>
              /\ Fail("store")
    /\ UNCHANGED <<should_stop, cycle, events, documents, tmp_dirty, cache,
                   pacing, script, fetched, skipped, rendered, put_rejected,
                   uploaded, complete, cache_full, prev_clean>>

\* mark_doc_done(inserted_doc_id, db_conn).await?
MarkDone ==
    /\ UNCHANGED <<conv, last_refresh, entered>>
    /\ pc = "mark_done"
    /\ UNCHANGED budget
    /\ \E update_ok \in BOOLEAN :
         IF update_ok
         THEN /\ documents' = MarkDocDone(documents, inserted_doc_id)
              /\ rendered' = (inserted_doc_id :> files) @@ rendered
              /\ wrote' = TRUE
              /\ pc' = "doc_check"
              /\ UNCHANGED <<result, failure, locals>>
         ELSE /\ UNCHANGED <<documents, rendered, wrote>>
              /\ Fail("store")
    /\ UNCHANGED <<should_stop, cycle, events, images, tmp_dirty, cache,
                   pacing, script, fetched, skipped, put_rejected, uploaded,
                   complete, cache_full, prev_clean>>

\* the end of the document loop without the call of clear_tmp_dir
ClearTmpSkipped ==
    /\ UNCHANGED <<conv, last_refresh, entered>>
    /\ pc = "clear_tmp"
    /\ UNCHANGED budget
    /\ pc' = "event_check"
    /\ ev' = {}
    /\ real_event' = NoEvent
    /\ doc' = {}
    /\ docIdx' = 0
    /\ UNCHANGED <<result, failure, year, i, evIdx, inserted_doc_id,
                   files, page_number>>
    /\ UNCHANGED <<should_stop, cycle, store, tmp_dirty, cache, pacing, script,
                   fetched, skipped, rendered, put_rejected, wrote, uploaded,
                   complete, cache_full, prev_clean>>

\* clear_tmp_dir()? after the documents of the event
ClearTmp ==
    /\ UNCHANGED <<conv, last_refresh, entered>>
    /\ pc = "clear_tmp"
    /\ UNCHANGED budget
    /\ \E clear_ok \in BOOLEAN :
         IF clear_ok
         THEN /\ tmp_dirty' = FALSE
              /\ pc' = "event_check"
              /\ ev' = {}
              /\ real_event' = NoEvent
              /\ doc' = {}
              /\ docIdx' = 0
              /\ UNCHANGED <<result, failure, year, i, evIdx, inserted_doc_id,
                             files, page_number>>
         ELSE /\ UNCHANGED tmp_dirty
              /\ Fail("scratch")
    /\ UNCHANGED <<should_stop, cycle, store, cache, pacing, script,
                   fetched, skipped, rendered, put_rejected, wrote, uploaded,
                   complete, cache_full, prev_clean>>

\* main.rs: runner has returned and its LocalCache is dropped; the error, if
\* any, is reported; runner_time is measured and the delay computed
Measure ==
    /\ UNCHANGED <<conv, last_refresh>>
    /\ entered' = {}
    /\ pc = "runner_done"
    /\ UNCHANGED budget
    /\ \E e \in 0..MaxElapsed :
         /\ runner_time' = e
         /\ delay' = PacingDelay(e)
    /\ pc' = "sleeping"
    /\ cache' = LocalCacheDefault
    /\ prev_clean' = (result = "ok" /\ complete)
    /\ failure' = "none"
    /\ fetched' = {}
    /\ skipped' = FALSE
    /\ put_rejected' = FALSE
    /\ wrote' = FALSE
    /\ uploaded' = FALSE
    /\ complete' = TRUE
    /\ cache_full' = FALSE
    /\ UNCHANGED <<should_stop, cycle, store, tmp_dirty, locals, result,
                   script, rendered>>

\* main.rs: tokio::time::sleep(..).await returns; back to the head of the loop
Wake ==
    /\ UNCHANGED <<conv, last_refresh, entered>>
    /\ pc = "sleeping"
    /\ UNCHANGED budget
    /\ pc' = "main_loop"
    /\ runner_time' = 0
    /\ delay' = 0
    /\ UNCHANGED <<should_stop, cycle, store, tmp_dirty, cache, locals,
                   result, script, history>>

Next ==
    \/ CtrlC
    \/ MainLoop
    \/ PopulateCache
    \/ GetSeason
    \/ EventCheck
    \/ ResolveEvent
    \/ DocCheck
    \/ DocDedup
    \/ Download
    \/ UploadMirror
    \/ InsertDoc
    \/ Render
    \/ PagePut
    \/ PageInsert
    \/ MarkDone
    \/ ClearTmp
    \/ Measure
    \/ Wake

Spec == Init /\ [][Next]_vars

\* the steps of the main task (everything but the signal task)
MainTask ==
    \/ MainLoop
    \/ PopulateCache
    \/ GetSeason
    \/ EventCheck
    \/ ResolveEvent
    \/ DocCheck
    \/ DocDedup
    \/ Download
    \/ UploadMirror
    \/ InsertDoc
    \/ Render
    \/ PagePut
    \/ PageInsert
    \/ MarkDone
    \/ ClearTmp
    \/ Measure
    \/ Wake

\* the runtime keeps polling the main task and every await returns
SpecFair == Init /\ [][Next]_vars /\ WF_vars(MainTask)

SpecFixedFeed == InitFixedFeed /\ [][Next]_vars

InitLongPage ==
    /\ InitCommon
    /\ ConvIdle
    /\ script \in {{f} : f \in PageFeeds}

SpecLongPage == InitLongPage /\ [][Next]_vars


\* ------------------------------------------------- model/series.rs: Series
\* A String is a sequence of characters; the Series enum is {F1, F2, F3}.
Chars == {"f", "F", "1", "2", "3", "x"}
Tokens == SeqsUpTo(Chars, MaxTokenLen)
SeriesValues == {"F1", "F2", "F3"}

\* impl From<String> for Series, accepting only the lowercase tokens
SeriesFromLowercase(value) ==
    CASE value = <<"f", "1">> -> "F1"
      [] value = <<"f", "2">> -> "F2"
      [] value = <<"f", "3">> -> "F3"
      [] OTHER -> "F1"
\* impl From<String> for Series
SeriesFromString(value) ==
    CASE value \in {<<"f", "1">>, <<"F", "1">>} -> "F1"
      [] value \in {<<"f", "2">>, <<"F", "2">>} -> "F2"
      [] value \in {<<"f", "3">>, <<"F", "3">>} -> "F3"
      [] OTHER -> "F1"

\* impl From<Series> for String
StringFromSeries(value) ==
    CASE value = "F1" -> <<"f", "1">>
      [] value = "F2" -> <<"f", "2">>
      [] value = "F3" -> <<"f", "3">>

\* impl Display for Series: the str written by fmt
SeriesFmt(value) ==
    CASE value = "F1" -> <<"f", "1">>
      [] value = "F2" -> <<"f", "2">>
      [] value = "F3" -> <<"f", "3">>

InitSeries ==
    /\ InitCommon
    /\ script = {}
    /\ tok \in Tokens
    /\ ser = {}
    /\ enc = {}
    /\ shown = {}
    /\ back = {}

\* Series::from(tok)
Decode ==
    /\ ser = {}
    /\ ser' = {SeriesFromString(tok)}
    /\ UNCHANGED <<loop, tok, enc, shown, back>>

\* String::from(series)
Encode ==
    /\ ser # {}
    /\ enc = {}
    /\ enc' = {StringFromSeries(Some(ser))}
    /\ UNCHANGED <<loop, tok, ser, shown, back>>

\* series.to_string()
Show ==
    /\ ser # {}
    /\ shown = {}
    /\ shown' = {SeriesFmt(Some(ser))}
    /\ UNCHANGED <<loop, tok, ser, enc, back>>

\* Series::from(String::from(series))
DecodeEncoded ==
    /\ enc # {}
    /\ back = {}
    /\ back' = {SeriesFromString(Some(enc))}
    /\ UNCHANGED <<loop, tok, ser, enc, shown>>

NextSeries ==
    \/ Decode
    \/ Encode
    \/ Show
    \/ DecodeEncoded

SpecSeries == InitSeries /\ [][NextSeries]_vars


\* =================================================================== claims
PipelinePcs == {"download", "mirror", "insert_doc", "render", "page_put",
                "page_insert", "mark_done"}
AfterInsertPcs == {"render", "page_put", "page_insert", "mark_done"}

ImagesOf(d) == SelectSeq(images, LAMBDA r : r.document_id = d)

Max(a, b) == IF a >= b THEN a ELSE b

\* C1: when the feed fetch of a series fails, only that series is aborted:
\* by the time runner returns, every series of [F1, F2, F3] has had its feed
\* fetched in that cycle.
C1_FeedFailureAbortsOnlySeries ==
    (pc = "runner_done" /\ failure = "feed") => fetched = SeriesRange

\* C2: when a pipeline step of a document fails (download, mirror upload,
\* render, page read, page upload), only that document is aborted: control
\* goes on to the next document of the same event.
C2_PipelineFailureAbortsOnlyDocument ==
    [][(failure = "none" /\ failure' = "pipeline") => pc' = "doc_check"]_vars

\* C3: once should_stop is set, a boundary check (head of the event loop, head
\* of the document loop) starts no event and no document; a document that is
\* in the pipeline goes on to its success (marked ReadyToPost) or to its
\* failure (runner returns Err) whatever the flag is: the flag is never acted
\* on in the middle of a document.
C3_StopOnlyAtBoundaries ==
    [][/\ (should_stop /\ pc = "event_check")
            => (pc' \in {"event_check", "get_season", "runner_done"} /\ ev' = ev)
       /\ (should_stop /\ pc = "doc_check")
            => (pc' \in {"doc_check", "clear_tmp"} /\ doc' = doc)
       /\ (pc \in PipelinePcs)
            => pc' \in PipelinePcs \cup {"doc_check", "runner_done"}
       /\ (pc \in PipelinePcs /\ pc' = "runner_done") => result' = "err"
       /\ (pc \in PipelinePcs /\ pc' = "doc_check")
            => documents'[inserted_doc_id].status = "ReadyToPost"
      ]_vars

\* C3 witness: the flag was set while a document was in the pipeline (its
\* boundary check saw it unset), and the document has been marked done.
C3_Witness ==
    /\ should_stop
    /\ pc = "doc_check"
    /\ inserted_doc_id > 0
    /\ documents[inserted_doc_id].status = "ReadyToPost"

\* the cache's documents as they were when the current candidate was examined
ExaminedDocuments ==
    IF pc \in AfterInsertPcs
    THEN SubSeq(cache.documents, 1, Len(cache.documents) - 1)
    ELSE cache.documents

\* C4: a document candidate whose url is the href of a document of the cache
\* when it is examined never enters the pipeline (no download, mirror upload,
\* render or page upload), and examining it writes nothing to the store.
C4_CachedUrlNeverProcessed ==
    /\ [](pc \in PipelinePcs =>
            \A k \in 1..Len(ExaminedDocuments) :
                ExaminedDocuments[k].href # Some(Some(doc).url))
    /\ [][(/\ pc = "doc_dedup"
           /\ Some(doc).title # {}
           /\ Some(doc).url # {}
           /\ \E k \in 1..Len(cache.documents) :
                  cache.documents[k].href = Some(Some(doc).url))
          => (pc' \in {"doc_dedup", "doc_check"}
                /\ UNCHANGED <<store, cache, uploaded, wrote, tmp_dirty>>)]_vars

\* C4 witness: a candidate has just been skipped because its url is cached.
C4_Witness ==
    /\ pc = "doc_check"
    /\ skipped
    /\ doc # {}
    /\ \E k \in 1..Len(cache.documents) :
           cache.documents[k].href = Some(Some(doc).url)

\* C5: the store holds at most one Event row per (title, year, series).
C5_EventRowsUnique ==
    \A a, b \in 1..Len(events) :
        (/\ events[a].title = events[b].title
         /\ events[a].year = events[b].year
         /\ events[a].series = events[b].series) => a = b

\* C6: a document is marked ReadyToPost only if every page PUT of it was
\* answered with a success status.
C6_ReadyOnlyAfterSuccessfulUploads ==
    (/\ inserted_doc_id > 0
     /\ documents[inserted_doc_id].status = "ReadyToPost") => ~put_rejected

\* C7: the Image rows of every document carry the page numbers 0..k-1 in the
\* order of their creation, every Image row belongs to a Document row, and a
\* ReadyToPost document has as many Image rows as the render step returned
\* page paths.
C7_PagesContiguous ==
    /\ \A k \in 1..Len(images) : images[k].document_id \in 1..Len(documents)
    /\ \A d \in 1..Len(documents) :
         /\ \A k \in 1..Len(ImagesOf(d)) : ImagesOf(d)[k].page_number = k - 1
         /\ documents[d].status = "ReadyToPost"
              => (d \in DOMAIN rendered /\ Len(ImagesOf(d)) = rendered[d])

\* C7 witness: a second document is ReadyToPost with two pages recorded.
C7_Witness ==
    \E d \in 1..Len(documents) :
        /\ d > 1
        /\ documents[d].status = "ReadyToPost"
        /\ Len(ImagesOf(d)) >= 2

\* C8: the delay slept is max(targetInterval - elapsed, minimumFloor).
C8_DelayIsMaxOfRemainderAndFloor ==
    pc = "sleeping" => delay = Max(TargetInterval - runner_time, FallbackDelay)

\* C9: after a cycle that ran to its end without failure, a cycle over the
\* same feed, with the cache populated from the whole store, writes nothing
\* to the store and uploads nothing.
C9_SecondCycleIdle ==
    (prev_clean /\ cache_full) => (~wrote /\ ~uploaded)

\* C10: a candidate that lacks a required field never ends the pipeline.
C10_MalformedCandidateDropped == pc # "panicked"

\* C11: a cycle that ended with Err never ends the main loop: while the stop
\* flag is unset the loop goes from the failed runner to the sleep and from the
\* sleep to the head of the loop, and the head of the loop does not leave the
\* loop.
C11_FailedCycleNeverExits ==
    [][/\ (pc = "runner_done" /\ result = "err") => pc' \in {"runner_done", "sleeping"}
       /\ (pc = "sleeping" /\ result = "err") => pc' \in {"sleeping", "main_loop"}
       /\ (pc = "main_loop" /\ result = "err" /\ ~should_stop)
            => pc' \in {"main_loop", "populate"}
      ]_vars

\* a step of populate_cache in which a row of the year was not delivered to
\* the cache although its table was read
PopulateLostRows ==
    /\ pc = "populate"
    /\ pc' # pc
    /\ \/ Len(cache'.events) < Len(YearEvents(events, year))
       \/ /\ NowDays(year) - cache.last_populated >= 1
          /\ Len(cache'.documents) < Len(YearDocuments(documents, year))

\* C12: every store read or write failure is fatal to the cycle: the step in
\* which it happens makes runner return Err, and after runner has returned
\* nothing is written, downloaded or uploaded before the next cycle starts.
C12_StoreFailureEndsCycle ==
    [][/\ (PopulateLostRows \/ (failure = "none" /\ failure' = "store"))
            => (pc' = "runner_done" /\ result' = "err")
       /\ (pc \in {"runner_done", "sleeping"})
            => UNCHANGED <<store, tmp_dirty>>
      ]_vars

\* the Document rows left at status Initial by an earlier failure: every row
\* at Initial other than the one the pipeline is working on
StrandedDocuments ==
    {d \in 1..Len(documents) :
        documents[d].status = "Initial" /\ d # inserted_doc_id}

\* C13: a document whose pipeline failed after its row was inserted is never
\* processed again: no candidate with its url enters the pipeline in a later
\* cycle, and its status stays Initial.
C13_FailedDocumentNeverRetried ==
    /\ [](pc \in PipelinePcs =>
            \A d \in StrandedDocuments :
                documents[d].href # Some(Some(doc).url))
    /\ [][\A d \in StrandedDocuments :
              pc' # "panicked" => documents'[d].status = "Initial"]_vars

\* the lowercase token of a Series
LowercaseToken(s) ==
    IF s = "F1" THEN <<"f", "1">> ELSE IF s = "F2" THEN <<"f", "2">> ELSE <<"f", "3">>

\* C14: decoding maps "f1"/"F1", "f2"/"F2", "f3"/"F3" to F1, F2, F3 and every
\* other string to F1; encoding (From<Series> for String, and Display) yields
\* the lowercase token; decoding the encoding of a Series gives that Series.
C14_SeriesTokenRoundTrip ==
    /\ \A s \in ser :
         /\ s \in SeriesValues
         /\ (Len(tok) = 2 /\ tok[1] \in {"f", "F"} /\ tok[2] = "1") => s = "F1"
         /\ (Len(tok) = 2 /\ tok[1] \in {"f", "F"} /\ tok[2] = "2") => s = "F2"
         /\ (Len(tok) = 2 /\ tok[1] \in {"f", "F"} /\ tok[2] = "3") => s = "F3"
         /\ ~(Len(tok) = 2 /\ tok[1] \in {"f", "F"} /\ tok[2] \in {"1", "2", "3"})
               => s = "F1"
    /\ \A e \in enc : e = LowercaseToken(Some(ser))
    /\ \A e \in shown : e = LowercaseToken(Some(ser))
    /\ \A b \in back : b = Some(ser)

\* C14 witness: the uppercase token F3 was decoded, encoded and decoded again.
C14_Witness ==
    /\ tok = <<"F", "3">>
    /\ ser = {"F3"}
    /\ enc = {<<"f", "3">>}
    /\ shown = {<<"f", "3">>}
    /\ back = {"F3"}

\* C15: populate_cache loads the documents only when at least a day has
\* passed since the previous successful document refresh (so at most once per
\* day), while the events are read in every cycle.
C15_DocumentsRefreshedAtMostDaily ==
    [][/\ (pc = "populate" /\ cache'.last_populated # cache.last_populated)
            => \A d \in last_refresh : cache'.last_populated - d >= 1
       /\ (pc = "populate" /\ pc' = "get_season")
            => cache'.events \in Prefixes(YearEvents(events, year))
      ]_vars

\* C16: when populate_cache ends with an error, the events and the documents
\* of the Cache are what they were before the call.
C16_FailedPopulateLeavesCache ==
    [][(pc = "populate" /\ pc' = "runner_done")
          => (cache'.events = cache.events /\ cache'.documents = cache.documents)
      ]_vars

\* C17: the store holds at most one Document row per (event_id, source url),
\* and a source url that has a Document row is never inserted again.
C17_DocumentRowsUnique ==
    /\ [](\A a, b \in 1..Len(documents) :
            (/\ documents[a].event_id = documents[b].event_id
             /\ documents[a].href = documents[b].href) => a = b)
    /\ [][Len(documents') > Len(documents)
            => \A a \in 1..Len(documents) :
                   documents[a].href # documents'[Len(documents')].href]_vars

\* the event candidate (without its documents) at position n of the page of
\* series s, and its k-th document candidate
ListedEvent(s, n) ==
    [title |-> Some(script)[s][n].title, season |-> Some(script)[s][n].season]
ListedDoc(s, n, k) == Some(script)[s][n].documents[k]

C19_StopLeadsToCleanExit == should_stop ~> (pc = "done")

\* C20: when the document loop of an event ends (no candidate left, or the
\* stop flag seen at its head) the scratch directory is cleared before the
\* event loop goes on, and a failure of the clear makes runner return Err.
C20_ScratchClearedAfterEvent ==
    [][/\ (pc = "doc_check")
            => pc' \in {"doc_check", "doc_dedup", "clear_tmp"}
       /\ (pc' = "event_check" /\ pc # "event_check")
            => \/ pc = "get_season"
               \/ (pc = "clear_tmp" /\ ~tmp_dirty')
       /\ (pc = "clear_tmp")
            => \/ pc' = "clear_tmp"
               \/ (pc' = "event_check" /\ ~tmp_dirty')
               \/ (pc' = "runner_done" /\ result' = "err" /\ failure' = "scratch")
      ]_vars

\* C20 witness: the document loop of an event was cut short by the stop flag
\* after a download, and the scratch directory has been cleared.
C20_Witness ==
    /\ pc = "event_check"
    /\ evIdx >= 1
    /\ should_stop
    /\ ~complete
    /\ uploaded
    /\ ~tmp_dirty

\* C21: within one cycle a url enters the pipeline at most once: right after
\* its Document row is inserted the document is in the cache's documents, and
\* a later candidate of the cycle with a url that has entered the pipeline is
\* skipped; no step of the pipeline is taken a second time for a document.
C21_UrlEntersPipelineOncePerCycle ==
    /\ [](pc \in AfterInsertPcs =>
            /\ Len(cache.documents) > 0
            /\ cache.documents[Len(cache.documents)].href = Some(Some(doc).url)
            /\ cache.documents[Len(cache.documents)].id = inserted_doc_id)
    /\ [][/\ (pc = "doc_dedup" /\ pc' = "download")
               => Some(Some(doc).url) \notin entered
          /\ (pc = "doc_dedup" /\ doc # {} /\ Some(doc).title # {}
                /\ Some(doc).url \subseteq entered /\ Some(doc).url # {})
               => pc' \in {"doc_dedup", "doc_check"}
          /\ (pc = "download") => pc' \in {"download", "mirror", "runner_done"}
          /\ (pc = "mirror") => pc' \in {"mirror", "insert_doc", "runner_done"}
          /\ (pc = "insert_doc") => pc' \in {"insert_doc", "render", "runner_done"}
          /\ (pc = "render")
               => pc' \in {"render", "page_put", "mark_done", "runner_done"}
          /\ (pc = "page_put" /\ pc' # "page_put")
               => (pc' \in {"page_insert", "runner_done"})
          /\ (pc = "page_insert" /\ pc' = "page_put")
               => page_number' = page_number + 1
         ]_vars

\* C21 witness: a candidate whose url entered the pipeline earlier in this
\* cycle, under another event, has just been skipped.
C21_Witness ==
    /\ pc = "doc_check"
    /\ skipped
    /\ doc # {}
    /\ Some(doc).url \subseteq entered
    /\ Some(doc).url # {}
    /\ evIdx + i > 2
    /\ \E k \in 1..Len(documents) :
          /\ documents[k].href = Some(Some(doc).url)
          /\ documents[k].event_id # real_event.id

====
